---------------------------- MODULE Spec2Model ----------------------------
(***************************************************************************)
(* A model of the DarkPDF API engines: page-range resolution               *)
(* (api/utils.py), text-run location and style-preserving substitution     *)
(* (api/editing.py) and the HTTP handlers that call them (api/app.py).     *)
(*                                                                         *)
(* The program keeps no state between requests, so the state of the model  *)
(* is one call: its inputs (call), its position (pc) and its outcome       *)
(* (ret).  Text is a sequence of one-character strings, so that parsing,   *)
(* splitting and substring search are computed character by character.     *)
(***************************************************************************)
EXTENDS Integers, Sequences, FiniteSets, TLC

VARIABLES pc, call, ret

vars == <<pc, call, ret>>

(***************************************************************************)
(* Bounds of the enumerated inputs.                                        *)
(***************************************************************************)
MaxLen == 4          \* longest enumerated range expression, in characters
MaxPages == 3        \* largest enumerated page count of a document

(***************************************************************************)
(* Python values and string primitives.                                    *)
(***************************************************************************)
\* Python's None where a str is expected (no one-character string is "None").
None == <<"None">>

\* The characters range expressions are enumerated over.
Chars == {"0", "1", "2", "3", "-", ",", " ", "+"}

DigitValue(c) ==
    CASE c = "0" -> 0 [] c = "1" -> 1 [] c = "2" -> 2 [] c = "3" -> 3
      [] c = "4" -> 4 [] c = "5" -> 5 [] c = "6" -> 6 [] c = "7" -> 7
      [] c = "8" -> 8 [] c = "9" -> 9

IsDigit(c) == c \in {"0", "1", "2", "3", "4", "5", "6", "7", "8", "9"}

\* str.replace(" ", ""): every space is removed.
RECURSIVE RemoveSpaces(_)
RemoveSpaces(s) ==
    IF s = <<>> THEN <<>>
    ELSE (IF Head(s) = " " THEN <<>> ELSE <<Head(s)>>) \o RemoveSpaces(Tail(s))

\* str.find(c) + 1: the position of the first c in s, 0 when there is none.
RECURSIVE FirstIndex(_, _, _)
FirstIndex(s, c, i) ==
    IF i > Len(s) THEN 0
    ELSE IF s[i] = c THEN i
    ELSE FirstIndex(s, c, i + 1)

\* str.split(c): the pieces between the separators; "" splits into [""].
RECURSIVE SplitAll(_, _)
SplitAll(s, c) ==
    LET i == FirstIndex(s, c, 1)
    IN  IF i = 0 THEN <<s>>
        ELSE <<SubSeq(s, 1, i - 1)>> \o SplitAll(SubSeq(s, i + 1, Len(s)), c)

\* The value of a non-empty string of decimal digits.
RECURSIVE DecimalValue(_)
DecimalValue(s) ==
    IF s = <<>> THEN 0
    ELSE 10 * DecimalValue(SubSeq(s, 1, Len(s) - 1)) + DigitValue(s[Len(s)])

\* int(s) on the enumerated characters: an optional sign, then one or more
\* digits; anything else raises ValueError.
PyInt(s) ==
    LET signed == s # <<>> /\ Head(s) \in {"+", "-"}
        digits == IF signed THEN Tail(s) ELSE s
    IN  IF digits = <<>> \/ \E i \in 1..Len(digits) : ~IsDigit(digits[i])
        THEN [ok |-> FALSE, val |-> 0]
        ELSE [ok |-> TRUE,
              val |-> IF signed /\ Head(s) = "-"
                      THEN 0 - DecimalValue(digits)
                      ELSE DecimalValue(digits)]

(***************************************************************************)
(* api/utils.py: parse_page_ranges.                                        *)
(***************************************************************************)
ChunkBoundsHalfOpen(chunk, total_pages) ==
    LET dash == FirstIndex(chunk, "-", 1)
        start_str == SubSeq(chunk, 1, dash - 1)
        end_str == SubSeq(chunk, dash + 1, Len(chunk))
        start == IF dash # 0
                 THEN (IF start_str # <<>> THEN PyInt(start_str)
                       ELSE [ok |-> TRUE, val |-> 1])
                 ELSE PyInt(chunk)
        end == IF dash # 0
               THEN (IF end_str # <<>>
                     THEN [ok |-> PyInt(end_str).ok, val |-> PyInt(end_str).val - 1]
                     ELSE [ok |-> TRUE, val |-> total_pages])
               ELSE PyInt(chunk)
    IN  [ok |-> start.ok /\ end.ok, start |-> start.val, end |-> end.val]

\* Lines 11-16: the bounds a chunk states, before validation.  Without a
\* dash the chunk is one page number; with one, the text before the first
\* dash is the start (1 when empty) and the rest is the end (total_pages
\* when empty).
ChunkBounds(chunk, total_pages) ==
    LET dash == FirstIndex(chunk, "-", 1)
        start_str == SubSeq(chunk, 1, dash - 1)
        end_str == SubSeq(chunk, dash + 1, Len(chunk))
        start == IF dash # 0
                 THEN (IF start_str # <<>> THEN PyInt(start_str)
                       ELSE [ok |-> TRUE, val |-> 1])
                 ELSE PyInt(chunk)
        end == IF dash # 0
               THEN (IF end_str # <<>> THEN PyInt(end_str)
                     ELSE [ok |-> TRUE, val |-> total_pages])
               ELSE PyInt(chunk)
    IN  [ok |-> start.ok /\ end.ok, start |-> start.val, end |-> end.val]

\* Line 17: the bounds that are rejected outright.
InvalidStart(start, end, total_pages) ==
    start < 1 \/ end < 1 \/ start > total_pages

ClampEndKeep(end, total_pages) == end

\* Lines 19-20: an end past the last page is pulled back to it.
ClampEnd(end, total_pages) ==
    IF end > total_pages THEN total_pages ELSE end

ChunkSpanClampStart(chunk, total_pages) ==
    LET b == ChunkBounds(chunk, total_pages)
        start == IF b.start > total_pages THEN total_pages ELSE b.start
        end == ClampEnd(b.end, total_pages)
    IN  IF ~b.ok
        THEN [err |-> "ValueError: invalid literal", span |-> <<0, 0>>]
        ELSE IF start < 1 \/ b.end < 1
        THEN [err |-> "ValueError: invalid start", span |-> <<0, 0>>]
        ELSE IF start > end
        THEN [err |-> "ValueError: start > end", span |-> <<0, 0>>]
        ELSE [err |-> "none", span |-> <<start, end>>]

\* One pass of the loop body (lines 11-23): the span of one chunk, or the
\* ValueError it raises.
ChunkSpan(chunk, total_pages) ==
    LET b == ChunkBounds(chunk, total_pages)
        end == ClampEnd(b.end, total_pages)
    IN  IF ~b.ok
        THEN [err |-> "ValueError: invalid literal", span |-> <<0, 0>>]
        ELSE IF InvalidStart(b.start, b.end, total_pages)
        THEN [err |-> "ValueError: invalid start", span |-> <<0, 0>>]
        ELSE IF b.start > end
        THEN [err |-> "ValueError: start > end", span |-> <<0, 0>>]
        ELSE [err |-> "none", span |-> <<b.start, end>>]

AddSpanOnce(spans, span) ==
    IF \E i \in 1..Len(spans) : spans[i] = span THEN spans
    ELSE Append(spans, span)

\* Line 23: spans.append((start, end))
AddSpan(spans, span) == Append(spans, span)

\* The for loop: spans are appended chunk by chunk, the first chunk that
\* raises ends the call.
RECURSIVE SpansOf(_, _, _)
SpansOf(chunks, total_pages, spans) ==
    IF chunks = <<>> THEN [err |-> "none", spans |-> spans]
    ELSE LET c == ChunkSpan(Head(chunks), total_pages)
         IN  IF c.err # "none" THEN [err |-> c.err, spans |-> <<>>]
             ELSE SpansOf(Tail(chunks), total_pages, AddSpan(spans, c.span))

OrFirstPage(ranges) ==
    IF ranges = None \/ ranges = <<>> THEN <<"1">> ELSE ranges

\* ranges or "1-"
OrDefault(ranges) ==
    IF ranges = None \/ ranges = <<>> THEN <<"1", "-">> ELSE ranges

parse_page_ranges_empty_doc(ranges, total_pages) ==
    IF total_pages = 0 THEN [err |-> "none", spans |-> <<>>]
    ELSE SpansOf(SplitAll(RemoveSpaces(OrDefault(ranges)), ","), total_pages, <<>>)

parse_page_ranges(ranges, total_pages) ==
    SpansOf(SplitAll(RemoveSpaces(OrDefault(ranges)), ","), total_pages, <<>>)

(***************************************************************************)
(* Calls of parse_page_ranges.                                             *)
(***************************************************************************)
RECURSIVE StringsUpTo(_)
StringsUpTo(n) ==
    IF n = 0 THEN {<<>>}
    ELSE LET shorter == StringsUpTo(n - 1)
         IN  shorter \cup {Append(s, c) : s \in shorter, c \in Chars}

\* Range expressions longer than MaxLen: the worked examples of the range
\* grammar and a reorder with a repeated span, as (ranges, total_pages).
RangeExamples ==
    { << <<"3", ",", "9", "9">>, 5 >>,
      << <<"3", "-", "9", "9">>, 5 >>,
      << <<"2", "-">>, 5 >>,
      << <<"1", "-", "3", ",", "5", ",", "7", "-", "9">>, 10 >>,
      << <<"3", ",", "1", "-", "2", ",", "4">>, 4 >>,
      << <<"2", ",", "1", "-", "2", ",", "2">>, 2 >> }

RangeCall(ranges, total_pages) ==
    [op |-> "parse_page_ranges", ranges |-> ranges, total_pages |-> total_pages]

NoRet == [err |-> "pending"]

InitRanges ==
    /\ pc = "call"
    /\ ret = NoRet
    /\ \/ \E r \in StringsUpTo(MaxLen) \cup {None}, n \in 0..MaxPages :
              call = RangeCall(r, n)
       \/ \E e \in RangeExamples : call = RangeCall(e[1], e[2])

ParsePageRanges ==
    /\ pc = "call"
    /\ call.op = "parse_page_ranges"
    /\ ret' = parse_page_ranges(call.ranges, call.total_pages)
    /\ pc' = "done"
    /\ UNCHANGED call

NextRanges == ParsePageRanges

SpecRanges == InitRanges /\ [][NextRanges]_vars


(***************************************************************************)
(* api/editing.py: the page layout, as page.get_text("dict") reports it.   *)
(*                                                                         *)
(* data = [blocks |-> <<block>>], block = [lines |-> <<line>>],            *)
(* line = [spans |-> <<span>>], span = [text, font, size, color, bbox].    *)
(* Lengths are in tenths of a point and a colour channel is its numerator  *)
(* over 255, so that 0.2 * size and c / 255.0 are exact integers here.     *)
(* A block without a "lines" key (an image block) is a block whose lines   *)
(* are <<>>, which is what block.get("lines", []) makes of it.             *)
(***************************************************************************)
MaxItems == 3        \* most runs and line/block breaks of an enumerated page
MaxDocPages == 2     \* most pages of an enumerated document

\* A layout is enumerated as a flat sequence of items: a run ("run"), a run
\* the layout reports without a bounding box ("bare"), the end of a line
\* ("eol") or the end of a block ("eob").
RunItem(text) == [kind |-> "run", text |-> text]
BareItem(text) == [kind |-> "bare", text |-> text]
EndOfLine == [kind |-> "eol", text |-> <<>>]
EndOfBlock == [kind |-> "eob", text |-> <<>>]

\* The bounding box (x0, y0, x1, y1) of the k-th item of a page: every run
\* of a page has a box of its own.
BoxAt(k) == <<100 * k, 200, 100 * k + 80, 320>>

\* The span dict of the k-th item.
SpanAt(item, k, style) ==
    [text |-> item.text, font |-> style.font, size |-> style.size,
     color |-> style.color,
     bbox |-> IF item.kind = "bare" THEN <<>> ELSE BoxAt(k)]

RECURSIVE SplitItems(_, _, _, _)
\* The groups of items between the breaks of one kind, each item with its
\* index in the page.
SplitItems(items, kind, k, group) ==
    IF k > Len(items) THEN <<group>>
    ELSE IF items[k].kind = kind
    THEN <<group>> \o SplitItems(items, kind, k + 1, <<>>)
    ELSE SplitItems(items, kind, k + 1, Append(group, [item |-> items[k], k |-> k]))

RECURSIVE LinesOf(_, _, _, _)
LinesOf(group, style, i, spans) ==
    IF i > Len(group) THEN <<[spans |-> spans]>>
    ELSE IF group[i].item.kind = "eol"
    THEN <<[spans |-> spans]>> \o LinesOf(group, style, i + 1, <<>>)
    ELSE LinesOf(group, style, i + 1,
                 Append(spans, SpanAt(group[i].item, group[i].k, style)))

\* The layout dict of a page: no blocks for no items, a block without lines
\* for an empty group.
LayoutOf(items, style) ==
    IF items = <<>> THEN [blocks |-> <<>>]
    ELSE LET groups == SplitItems(items, "eob", 1, <<>>)
         IN  [blocks |->
                [b \in 1..Len(groups) |->
                    IF groups[b] = <<>> THEN [lines |-> <<>>]
                    ELSE [lines |-> LinesOf(groups[b], style, 1, <<>>)]]]

\* A page: its layout and what has been drawn over it.
PageOf(items, style) == [data |-> LayoutOf(items, style), overlay |-> <<>>]

(***************************************************************************)
(* api/editing.py: _find_span.                                             *)
(***************************************************************************)
\* s.startswith(t)
StartsWith(s, t) == Len(t) <= Len(s) /\ SubSeq(s, 1, Len(t)) = t

\* Python's `find_text in text` on str: an exact match of every character at
\* some offset.
RECURSIVE In(_, _)
In(find_text, text) ==
    IF StartsWith(text, find_text) THEN TRUE
    ELSE IF text = <<>> THEN FALSE
    ELSE In(find_text, Tail(text))

NoSpan == [text |-> <<>>, font |-> <<>>, size |-> 0, color |-> 0, bbox |-> <<>>]
NoLine == [spans |-> <<>>]
NotFound == [found |-> FALSE, span |-> NoSpan, line |-> NoLine]

RECURSIVE FindInSpansLast(_, _, _)
FindInSpansLast(spans, line, find_text) ==
    IF spans = <<>> THEN NotFound
    ELSE IF In(find_text, spans[Len(spans)].text)
    THEN [found |-> TRUE, span |-> spans[Len(spans)], line |-> line]
    ELSE FindInSpansLast(SubSeq(spans, 1, Len(spans) - 1), line, find_text)

\* for span in line.get("spans", []): the first span that holds find_text.
RECURSIVE FindInSpans(_, _, _)
FindInSpans(spans, line, find_text) ==
    IF spans = <<>> THEN NotFound
    ELSE IF In(find_text, Head(spans).text)
    THEN [found |-> TRUE, span |-> Head(spans), line |-> line]
    ELSE FindInSpans(Tail(spans), line, find_text)

\* for line in block.get("lines", [])
RECURSIVE FindInLines(_, _)
FindInLines(lines, find_text) ==
    IF lines = <<>> THEN NotFound
    ELSE LET f == FindInSpans(Head(lines).spans, Head(lines), find_text)
         IN  IF f.found THEN f ELSE FindInLines(Tail(lines), find_text)

\* for block in data.get("blocks", [])
RECURSIVE FindInBlocks(_, _)
FindInBlocks(blocks, find_text) ==
    IF blocks = <<>> THEN NotFound
    ELSE LET f == FindInLines(Head(blocks).lines, find_text)
         IN  IF f.found THEN f ELSE FindInBlocks(Tail(blocks), find_text)

\* doc[page_index] of the document engine: an index at or past the page
\* count raises IndexError, a negative one counts back from the end.  The
\* result is the zero-based number of the page.
PageNumber(doc, page_index) == page_index % Len(doc)

\* _find_span(doc, page_index, find_text): (page, span, line), or
\* (None, None, None) when no span holds find_text.
_find_span(doc, page_index, find_text) ==
    IF page_index >= Len(doc)
    THEN [err |-> "IndexError", found |-> FALSE, page |-> -1,
          span |-> NoSpan, line |-> NoLine]
    ELSE LET page == PageNumber(doc, page_index)
             f == FindInBlocks(doc[page + 1].data.blocks, find_text)
         IN  [err |-> "none", found |-> f.found,
              page |-> IF f.found THEN page ELSE -1,
              span |-> f.span, line |-> f.line]

(***************************************************************************)
(* api/editing.py: replace_text_preserving_style.                          *)
(***************************************************************************)
Upper == {"A", "B", "C", "D", "E", "F", "G", "H", "I", "J", "K", "L", "M",
          "N", "O", "P", "Q", "R", "S", "T", "U", "V", "W", "X", "Y", "Z"}

Arial == <<"A", "r", "i", "a", "l">>
Helvetica == <<"H", "e", "l", "v", "e", "t", "i", "c", "a">>
TimesRoman == <<"T", "i", "m", "e", "s", "-", "R", "o", "m", "a", "n">>
TimesNewRoman == <<"T", "i", "m", "e", "s", " ", "N", "e", "w", " ", "R", "o", "m", "a", "n">>
Courier == <<"C", "o", "u", "r", "i", "e", "r">>

\* The base14 dict.
base14 ==
    [name \in {TimesRoman, TimesNewRoman, Helvetica, Arial, Courier} |->
        CASE name = TimesRoman -> "tiro"
          [] name = TimesNewRoman -> "tiro"
          [] name = Helvetica -> "helv"
          [] name = Arial -> "helv"
          [] name = Courier -> "cour"]

\* re.sub(r"^[A-Z]{6}\+", "", font_name or ""): six upper-case letters and a
\* plus sign at the very start are dropped, once.
CleanName(font_name) ==
    IF /\ Len(font_name) >= 7
       /\ \A i \in 1..6 : font_name[i] \in Upper
       /\ font_name[7] = "+"
    THEN SubSeq(font_name, 8, Len(font_name))
    ELSE font_name

\* `if fallback_font_bytes:` holds for bytes that are neither None nor empty.
Truthy(bytes) == bytes # None /\ bytes # <<>>

ResolveFontFallbackFirst(font_name, fallback_font_bytes) ==
    LET clean_name == CleanName(font_name)
    IN  IF Truthy(fallback_font_bytes)
        THEN [font_ref_name |-> "matchfont", embed |-> TRUE]
        ELSE IF clean_name \in DOMAIN base14
        THEN [font_ref_name |-> base14[clean_name], embed |-> FALSE]
        ELSE [font_ref_name |-> "helv", embed |-> FALSE]

\* "Determine font to use": the name the text is drawn with, and whether
\* doc.insert_font is called for it.
ResolveFont(font_name, fallback_font_bytes) ==
    LET clean_name == CleanName(font_name)
    IN  IF clean_name \in DOMAIN base14
        THEN [font_ref_name |-> base14[clean_name], embed |-> FALSE]
        ELSE IF Truthy(fallback_font_bytes)
        THEN [font_ref_name |-> "matchfont", embed |-> TRUE]
        ELSE [font_ref_name |-> "helv", embed |-> FALSE]

\* ((color >> 16) & 255, (color >> 8) & 255, color & 255), each over 255.
DecodeColor(color) ==
    <<(color \div 65536) % 256, (color \div 256) % 256, color % 256>>

\* y1 - (0.2 * font_size)
BaselineY(y1, font_size) == y1 - (2 * font_size) \div 10

\* The colour (1, 1, 1), over 255.
White == <<255, 255, 255>>

NoBytes == <<>>

Raised(err, calls) == [err |-> err, calls |-> calls, out |-> NoBytes]

SpanMissingNever(f) == FALSE

\* if span is None
SpanMissing(f) == ~f.found

DrawOnEvery(pages, page, items) ==
    [q \in 1..Len(pages) |-> [pages[q] EXCEPT !.overlay = @ \o items]]

\* page.draw_rect / page.insert_text: what is drawn lands on that page.
DrawOn(pages, page, items) ==
    [pages EXCEPT ![page + 1].overlay = @ \o items]

EngineCallsTextFirst(mask, embeds, text, save) ==
    <<text, mask>> \o embeds \o <<save>>

\* The order of the statements of a call that returns: page.draw_rect
\* (line 51), doc.insert_font if any (line 66), page.insert_text (line 79),
\* doc.save (line 88).
EngineCalls(mask, embeds, text, save) ==
    <<mask>> \o embeds \o <<text, save>>

\* The call as a whole: the error it raises or the bytes it returns, and
\* the calls it has made on the document engine, in order.  embed_ok is the
\* engine's answer to doc.insert_font.
replace_text_preserving_style(pdf_bytes, page_index, find_text, replace_text, fallback_font_bytes, embed_ok) ==
    IF ~pdf_bytes.readable THEN Raised("FileDataError", <<>>)
    ELSE
    LET doc == pdf_bytes.pages
        f == _find_span(doc, page_index, find_text)
    IN
    IF f.err # "none" THEN Raised(f.err, <<>>)
    ELSE IF SpanMissing(f)
    THEN Raised("ValueError: Target text not found on the specified page.", <<>>)
    ELSE IF f.span.bbox = <<>>
    THEN Raised("ValueError: Could not determine span bounding box.", <<>>)
    ELSE
    LET font_size == f.span.size
        bbox == f.span.bbox
        mask == [op |-> "draw_rect", page |-> f.page, rect |-> bbox,
                 color |-> White, fill |-> White]
        font == ResolveFont(f.span.font, fallback_font_bytes)
        embed == [op |-> "insert_font", name |-> "matchfont",
                  file |-> fallback_font_bytes]
        text == [op |-> "insert_text", page |-> f.page,
                 point |-> <<bbox[1], BaselineY(bbox[4], font_size)>>,
                 text |-> replace_text, fontname |-> font.font_ref_name,
                 fontsize |-> font_size, color |-> DecodeColor(f.span.color)]
        save == [op |-> "save"]
    IN
    IF font.embed /\ ~embed_ok
    THEN Raised("RuntimeError: insert_font", <<mask, embed>>)
    ELSE [err |-> "none",
          calls |-> EngineCalls(mask, IF font.embed THEN <<embed>> ELSE <<>>,
                                text, save),
          out |-> DrawOn(doc, f.page, <<mask, text>>)]

(***************************************************************************)
(* Calls of _find_span and of replace_text_preserving_style.               *)
(***************************************************************************)
RECURSIVE SeqsUpTo(_, _)
SeqsUpTo(S, n) ==
    IF n = 0 THEN {<<>>}
    ELSE LET shorter == SeqsUpTo(S, n - 1)
         IN  shorter \cup {Append(s, x) : s \in shorter, x \in S}

\* Run texts that differ in case, in spacing and in where the target sits.
RunTexts == {<<"T", "o">>, <<"t", "o">>, <<"T", " ", "o">>, <<"a", "T", "o">>}

Targets == {<<"T", "o">>, <<"t", "o">>, <<>>}

Items == {RunItem(t) : t \in RunTexts} \cup {EndOfLine, EndOfBlock}

DefaultStyle == [font |-> Arial, size |-> 120, color |-> 0]

InitLocate ==
    /\ pc = "call"
    /\ ret = NoRet
    /\ \E items \in SeqsUpTo(Items, MaxItems), i \in {-1, 0, 1}, t \in Targets :
          call = [op |-> "_find_span", doc |-> <<PageOf(items, DefaultStyle)>>,
                  page_index |-> i, find_text |-> t]

FindSpan ==
    /\ pc = "call"
    /\ call.op = "_find_span"
    /\ ret' = _find_span(call.doc, call.page_index, call.find_text)
    /\ pc' = "done"
    /\ UNCHANGED call

NextLocate == FindSpan

SpecLocate == InitLocate /\ [][NextLocate]_vars

\* The pages documents are put together from: an empty page, a page with the
\* target in one run, in two runs of a line after a run without it, in runs
\* of two blocks, and in a run without a bounding box.
SamplePages ==
    { <<>>,
      <<RunItem(<<"T", "o">>)>>,
      <<RunItem(<<"t", "o">>), EndOfLine, RunItem(<<"T", "o">>), RunItem(<<"a", "T", "o">>)>>,
      <<RunItem(<<"T", "o">>), EndOfBlock, RunItem(<<"T", "o">>)>>,
      <<BareItem(<<"T", "o">>)>> }

EditStyles ==
    { DefaultStyle,
      [font |-> <<"C", "o", "m", "i", "c">>, size |-> 85, color |-> 3368601],
      [font |-> <<"A", "B", "C", "D", "E", "F", "+", "C", "o", "u", "r", "i", "e", "r">>, size |-> 120, color |-> 16711680] }

FallbackFonts == {None, <<>>, <<"O", "T", "T", "O">>}

Replacements == {<<"N", "o">>, <<>>}

Documents(style) ==
    { [readable |-> TRUE, pages |-> [q \in 1..Len(d) |-> PageOf(d[q], style)]] :
        d \in SeqsUpTo(SamplePages, MaxDocPages) \ {<<>>} }

Unreadable == [readable |-> FALSE, pages |-> <<>>]

EditCall(pdf_bytes, page_index, find_text, replace_text, fallback_font_bytes) ==
    [op |-> "replace_text_preserving_style", pdf_bytes |-> pdf_bytes,
     page_index |-> page_index, find_text |-> find_text,
     replace_text |-> replace_text, fallback_font_bytes |-> fallback_font_bytes]

\* The calls on the documents of some styles, and on an unreadable one.
EditCalls(styles, replacements) ==
    { EditCall(d, i, t, r, fb) :
        d \in UNION {Documents(style) : style \in styles},
        i \in -1..MaxDocPages, t \in {<<"T", "o">>, <<"t", "o">>},
        r \in replacements, fb \in FallbackFonts }
    \cup
    { EditCall(Unreadable, 0, <<"T", "o">>, r, fb) :
        r \in replacements, fb \in FallbackFonts }

InitEdit ==
    /\ pc = "call"
    /\ ret = NoRet
    /\ call \in EditCalls(EditStyles, Replacements)

ReplaceText ==
    /\ pc = "call"
    /\ call.op = "replace_text_preserving_style"
    /\ \E embed_ok \in BOOLEAN :
          ret' = replace_text_preserving_style(
                     call.pdf_bytes, call.page_index, call.find_text,
                     call.replace_text, call.fallback_font_bytes, embed_ok)
    /\ pc' = "done"
    /\ UNCHANGED call

NextEdit == ReplaceText

SpecEdit == InitEdit /\ [][NextEdit]_vars

\* Font ids: the names of the base14 dict and others, bare and behind
\* prefixes that are, or fall short of, a subset prefix.
FontPrefixes ==
    {<<>>, <<"A", "B", "C", "D", "E", "F", "+">>, <<"A", "B", "C", "D", "E", "+">>, <<"a", "b", "c", "d", "e", "f", "+">>, <<"A", "B", "C", "D", "E", "F", "G", "+">>, <<"A", "B", "C", "D", "E", "F">>, <<"A", "B", "C", "1", "E", "F", "+">>,
     <<"A", "B", "C", "D", "E", "F", "+", "A", "B", "C", "D", "E", "F", "+">>}

FontBases ==
    {Arial, Helvetica, TimesRoman, TimesNewRoman, Courier, <<"C", "o", "m", "i", "c">>, <<>>, <<"a", "r", "i", "a", "l">>}

FontNames == {pre \o base : pre \in FontPrefixes, base \in FontBases}

InitFont ==
    /\ pc = "call"
    /\ ret = NoRet
    /\ \E name \in FontNames, fb \in FallbackFonts :
          call = EditCall(
                    [readable |-> TRUE,
                     pages |-> <<PageOf(<<RunItem(<<"T", "o">>)>>,
                                        [font |-> name, size |-> 120, color |-> 0])>>],
                    0, <<"T", "o">>, <<"N", "o">>, fb)

SpecFont == InitFont /\ [][NextEdit]_vars

(***************************************************************************)
(* api/app.py: the handlers of the document-edit requests.  A response is  *)
(* its status, its body and the error the engine call raised, if any; an   *)
(* exception that leaves a handler is answered by the server with 500.     *)
(***************************************************************************)
MaxFormLen == 3      \* longest enumerated range expression of a request

UpperLetters == <<"A", "B", "C", "D", "E", "F", "G", "H", "I", "J", "K", "L", "M", "N", "O", "P", "Q", "R", "S", "T", "U", "V", "W", "X", "Y", "Z">>
LowerLetters == <<"a", "b", "c", "d", "e", "f", "g", "h", "i", "j", "k", "l", "m", "n", "o", "p", "q", "r", "s", "t", "u", "v", "w", "x", "y", "z">>

\* str.lower()
Lower(s) ==
    [k \in 1..Len(s) |->
        IF s[k] \in Upper
        THEN LowerLetters[CHOOSE n \in 1..26 : UpperLetters[n] = s[k]]
        ELSE s[k]]

\* str.endswith(suffix)
EndsWith(s, suffix) ==
    Len(suffix) <= Len(s) /\ SubSeq(s, Len(s) - Len(suffix) + 1, Len(s)) = suffix

\* file.filename.lower().endswith(".pdf")
IsPdfName(filename) == EndsWith(Lower(filename), <<".", "p", "d", "f">>)

Response(status, engine_err, body) ==
    [status |-> status, err |-> engine_err, body |-> body]

\* raise HTTPException(status_code=400, ...) before the engine is called
BadRequest == Response(400, "none", <<>>)

PagesOfSpanHalfOpen(pages, span) == SubSeq(pages, span[1], span[2] - 1)

\* The pages start..end of the reader (range(start - 1, end)).
PagesOfSpan(pages, span) == SubSeq(pages, span[1], span[2])

RECURSIVE Concat(_)
Concat(seqs) == IF seqs = <<>> THEN <<>> ELSE Head(seqs) \o Concat(Tail(seqs))

\* POST /split: one part per span, named split_{idx}_{start}-{end}.pdf.
split_pdf(file, ranges) ==
    IF ~IsPdfName(file.filename) THEN BadRequest
    ELSE IF ~file.data.readable THEN Response(400, "unreadable", <<>>)
    ELSE LET spans == parse_page_ranges(ranges, Len(file.data.pages))
         IN  IF spans.err # "none" THEN Response(500, spans.err, <<>>)
             ELSE Response(200, "none",
                    [idx \in 1..Len(spans.spans) |->
                        [name |-> <<idx, spans.spans[idx][1], spans.spans[idx][2]>>,
                         pages |-> PagesOfSpan(file.data.pages, spans.spans[idx])]])

\* POST /reorder: the pages of every span, span after span.
reorder_pages_pdf(file, order) ==
    IF ~IsPdfName(file.filename) THEN BadRequest
    ELSE IF ~file.data.readable THEN Response(400, "unreadable", <<>>)
    ELSE LET spans == parse_page_ranges(order, Len(file.data.pages))
         IN  IF spans.err # "none" THEN Response(500, spans.err, <<>>)
             ELSE Response(200, "none",
                    Concat([k \in 1..Len(spans.spans) |->
                               PagesOfSpan(file.data.pages, spans.spans[k])]))

SelectedOneBased(i, spans) ==
    \E k \in 1..Len(spans) : spans[k][1] <= i /\ i <= spans[k][2]

\* any(start - 1 <= i <= end - 1 for start, end in spans), i zero-based
Selected(i, spans) ==
    \E k \in 1..Len(spans) : spans[k][1] - 1 <= i /\ i <= spans[k][2] - 1

\* page.rotate(degrees) on a page
Rotated(page, degrees) == [page EXCEPT !.rotation = @ + degrees]

\* POST /rotate: every page is written, the selected ones rotated.
rotate_pages_pdf(file, ranges, degrees) ==
    IF ~IsPdfName(file.filename) THEN BadRequest
    ELSE IF degrees \notin {90, 180, 270} THEN BadRequest
    ELSE IF ~file.data.readable THEN Response(400, "unreadable", <<>>)
    ELSE LET spans == parse_page_ranges(ranges, Len(file.data.pages))
         IN  IF spans.err # "none" THEN Response(500, spans.err, <<>>)
             ELSE Response(200, "none",
                    [k \in 1..Len(file.data.pages) |->
                        IF Selected(k - 1, spans.spans)
                        THEN Rotated(file.data.pages[k], degrees)
                        ELSE file.data.pages[k]])

\* POST /edit/replace_text: every exception of the engine call becomes 400.
edit_replace_text(file, page_index, find_text, replace_text, fallback_font, embed_ok) ==
    IF ~IsPdfName(file.filename) THEN BadRequest
    ELSE LET out == replace_text_preserving_style(
                        file.data, page_index, find_text, replace_text,
                        fallback_font, embed_ok)
         IN  IF out.err # "none" THEN Response(400, out.err, <<>>)
             ELSE Response(200, "none", out.out)

(***************************************************************************)
(* Requests.                                                               *)
(***************************************************************************)
\* A readable upload of n pages, none rotated.
PdfOf(n) ==
    [readable |-> TRUE, pages |-> [k \in 1..n |-> [id |-> k, rotation |-> 0]]]

\* A readable upload of n pages, the odd ones already rotated by 90.
PdfRotated(n) ==
    [readable |-> TRUE,
     pages |-> [k \in 1..n |-> [id |-> k, rotation |-> IF k % 2 = 1 THEN 90 ELSE 0]]]

Upload(filename, data) == [filename |-> filename, data |-> data]

FileNames == {<<"a", ".", "p", "d", "f">>, <<"A", ".", "P", "D", "F">>, <<"a", ".", "t", "x", "t">>}

Request(op, file, ranges, degrees) ==
    [op |-> op, file |-> file, ranges |-> ranges, degrees |-> degrees]

\* Requests longer than MaxFormLen: those of the smoke test, and an order
\* that repeats a page of a span and leaves a page out.
RequestExamples ==
    { Request("split", Upload(<<"a", ".", "p", "d", "f">>, PdfOf(4)), <<"1", "-", "2", ",", "3", "-", "4">>, 0),
      Request("reorder", Upload(<<"a", ".", "p", "d", "f">>, PdfOf(4)), <<"3", ",", "1", "-", "2", ",", "4">>, 0),
      Request("reorder", Upload(<<"a", ".", "p", "d", "f">>, PdfOf(4)), <<"2", "-", "3", ",", "2">>, 0),
      Request("rotate", Upload(<<"a", ".", "p", "d", "f">>, PdfOf(3)), <<"1", "-", "2">>, 180) }

InitApi ==
    /\ pc = "call"
    /\ ret = NoRet
    /\ \/ \E o \in {<<"split", 0>>, <<"reorder", 0>>, <<"rotate", 90>>,
                     <<"rotate", 270>>},
              n \in 0..MaxPages, r \in StringsUpTo(MaxFormLen) :
              call = Request(o[1], Upload(<<"a", ".", "p", "d", "f">>, PdfOf(n)), r, o[2])
       \/ \E o \in {<<"split", 0>>, <<"reorder", 0>>, <<"rotate", 180>>,
                     <<"rotate", 45>>, <<"rotate", 0>>, <<"rotate", 360>>},
              name \in FileNames, data \in {PdfOf(2), Unreadable},
              r \in {<<"1", "-">>, <<"2">>, <<"3">>} :
              call = Request(o[1], Upload(name, data), r, o[2])
       \/ \E o \in {<<"reorder", 0>>, <<"rotate", 90>>},
              n \in 1..MaxPages, r \in StringsUpTo(MaxFormLen) :
              call = Request(o[1], Upload(<<"a", ".", "p", "d", "f">>, PdfRotated(n)), r, o[2])
       \/ call \in RequestExamples
       \/ \E name \in FileNames, c \in EditCalls({DefaultStyle}, {<<"N", "o">>}) :
              call = [op |-> "replace_text", file |-> Upload(name, c.pdf_bytes),
                      page_index |-> c.page_index, find_text |-> c.find_text,
                      replace_text |-> c.replace_text,
                      fallback_font |-> c.fallback_font_bytes]

SplitPdf ==
    /\ pc = "call"
    /\ call.op = "split"
    /\ ret' = split_pdf(call.file, call.ranges)
    /\ pc' = "done"
    /\ UNCHANGED call

ReorderPagesPdf ==
    /\ pc = "call"
    /\ call.op = "reorder"
    /\ ret' = reorder_pages_pdf(call.file, call.ranges)
    /\ pc' = "done"
    /\ UNCHANGED call

RotatePagesPdf ==
    /\ pc = "call"
    /\ call.op = "rotate"
    /\ ret' = rotate_pages_pdf(call.file, call.ranges, call.degrees)
    /\ pc' = "done"
    /\ UNCHANGED call

EditReplaceText ==
    /\ pc = "call"
    /\ call.op = "replace_text"
    /\ \E embed_ok \in BOOLEAN :
          ret' = edit_replace_text(call.file, call.page_index, call.find_text,
                                   call.replace_text, call.fallback_font, embed_ok)
    /\ pc' = "done"
    /\ UNCHANGED call

NextApi == SplitPdf \/ ReorderPagesPdf \/ RotatePagesPdf \/ EditReplaceText

SpecApi == InitApi /\ [][NextApi]_vars

(***************************************************************************)
(* api/app.py, highlight_pdf.  A float is a number of hundredths, or NaN;  *)
(* a page size is a whole number of points, so that a product of the two   *)
(* is a number of hundredths of a point.                                   *)
(***************************************************************************)
\* 1.0, in hundredths.
One == 100

Num(n) == [nan |-> FALSE, val |-> n]

NaN == [nan |-> TRUE, val |-> 0]

\* a < b and a <= b on floats: false when either side is NaN.
Lt(a, b) == ~a.nan /\ ~b.nan /\ a.val < b.val

Le(a, b) == ~a.nan /\ ~b.nan /\ a.val <= b.val

Add(a, b) == IF a.nan \/ b.nan THEN NaN ELSE Num(a.val + b.val)

Sub(a, b) == IF a.nan \/ b.nan THEN NaN ELSE Num(a.val - b.val)

\* The product of a float and a page size.
Mul(a, points) == IF a.nan THEN NaN ELSE Num(a.val * points)

\* max(a, b) and min(a, b) of Python: the first argument is kept unless the
\* second one compares greater (smaller).
PyMax(a, b) == IF Lt(a, b) THEN b ELSE a

PyMin(a, b) == IF Lt(b, a) THEN b ELSE a

\* A value of the JSON payload: a number (in hundredths), the literal NaN,
\* a string that spells no number, null, or a key that is absent.
Json(kind, val) == [kind |-> kind, val |-> val]

Number(n) == Json("number", n)

Absent == Json("missing", 0)

\* float(item[key]): KeyError, TypeError and ValueError are the exceptions
\* of line 310.
PyFloat(value) ==
    CASE value.kind = "number" -> [err |-> "none", v |-> Num(value.val)]
      [] value.kind = "nan" -> [err |-> "none", v |-> NaN]
      [] value.kind = "string" -> [err |-> "ValueError", v |-> NaN]
      [] value.kind = "null" -> [err |-> "TypeError", v |-> NaN]
      [] value.kind = "missing" -> [err |-> "KeyError", v |-> NaN]

\* int() of a number: truncation towards zero.
Truncated(n) == IF n >= 0 THEN n \div One ELSE -((-n) \div One)

\* int(item.get("pageIndex", -1)) of line 300; an element of the list that
\* is no object has no get.
PageIndex(item) ==
    IF ~item.dict THEN [err |-> "AttributeError", val |-> -1]
    ELSE CASE item.pageIndex.kind = "missing" -> [err |-> "none", val |-> -1]
           [] item.pageIndex.kind = "number" ->
                  [err |-> "none", val |-> Truncated(item.pageIndex.val)]
           [] item.pageIndex.kind = "nan" -> [err |-> "ValueError", val |-> -1]
           [] item.pageIndex.kind = "string" -> [err |-> "ValueError", val |-> -1]
           [] item.pageIndex.kind = "null" -> [err |-> "TypeError", val |-> -1]

FlipTopDown(v, page_height) ==
    Mul(PyMax(PyMin(v, Num(One)), Num(0)), page_height)

\* max(left, 0.0), line 314.
ClampLeft(left) == PyMax(left, Num(0))

\* min(left + width, 1.0), line 315.
ClampRight(left, width) == PyMin(Add(left, width), Num(One))

\* (1.0 - max(min(v, 1.0), 0.0)) * page_height, lines 316-317.
Flip(v, page_height) ==
    Mul(Sub(Num(One), PyMax(PyMin(v, Num(One)), Num(0))), page_height)

NoRect == [kept |-> FALSE, x1 |-> NaN, y1 |-> NaN, x2 |-> NaN, y2 |-> NaN]

\* Lines 305-319: the rectangle of an item on a page, or none (continue).
MapRect(item, page_width, page_height) ==
    LET left == PyFloat(item.left)
        top == PyFloat(item.top)
        width == PyFloat(item.width)
        height == PyFloat(item.height)
        x1 == Mul(ClampLeft(left.v), page_width)
        x2 == Mul(ClampRight(left.v, width.v), page_width)
        y2 == Flip(top.v, page_height)
        y1 == Flip(Add(top.v, height.v), page_height)
    IN  IF \E f \in {left, top, width, height} : f.err # "none" THEN NoRect
        ELSE IF Le(width.v, Num(0)) \/ Le(height.v, Num(0)) THEN NoRect
        ELSE IF Le(x2, x1) \/ Le(y2, y1) THEN NoRect
        ELSE [kept |-> TRUE, x1 |-> x1, y1 |-> y1, x2 |-> x2, y2 |-> y2]

\* Lines 320-333: the annotation of a rectangle.
Annotation(r) ==
    [subtype |-> "Highlight",
     rect |-> <<r.x1, r.y1, r.x2, r.y2>>,
     quad_points |-> <<r.x1, r.y2, r.x2, r.y2, r.x1, r.y1, r.x2, r.y1>>]

\* Lines 304-339: the annotations of the items of a page, in their order.
RECURSIVE Annotations(_, _, _)
Annotations(page_highlights, page_width, page_height) ==
    IF page_highlights = <<>> THEN <<>>
    ELSE LET r == MapRect(Head(page_highlights), page_width, page_height)
         IN  (IF r.kept THEN <<Annotation(r)>> ELSE <<>>)
               \o Annotations(Tail(page_highlights), page_width, page_height)

\* Lines 300-340: the page of index idx with the annotations of its items
\* appended to /Annots.
Annotated(page, idx, highlight_items) ==
    LET page_highlights ==
            SelectSeq(highlight_items, LAMBDA item : PageIndex(item).val = idx)
    IN  [page EXCEPT !.annots = @ \o Annotations(page_highlights, page.width, page.height)]

\* The items whose pageIndex makes line 300 raise.
Raising(highlight_items) ==
    {k \in 1..Len(highlight_items) : PageIndex(highlight_items[k]).err # "none"}

\* POST /annotate/highlight.  The payload is a list, another JSON value, no
\* JSON at all or the empty string, which is read as "[]".
highlight_pdf(file, highlights) ==
    IF ~IsPdfName(file.filename) THEN BadRequest
    ELSE IF highlights.kind = "invalid" THEN BadRequest
    ELSE IF highlights.kind \notin {"list", "empty"} THEN BadRequest
    ELSE IF ~file.data.readable THEN Response(400, "unreadable", <<>>)
    ELSE LET highlight_items == highlights.items
             pages == file.data.pages
             raising == Raising(highlight_items)
         IN  IF pages # <<>> /\ raising # {}
             THEN Response(500,
                    PageIndex(highlight_items[CHOOSE k \in raising :
                                                \A j \in raising : k <= j]).err,
                    <<>>)
             ELSE Response(200, "none",
                    [k \in 1..Len(pages) |-> Annotated(pages[k], k - 1, highlight_items)])

(***************************************************************************)
(* Highlight requests.                                                     *)
(***************************************************************************)
MaxBatch == 3

\* An object of the list, and an element of the list that is no object.
Item(pageIndex, left, top, width, height) ==
    [dict |-> TRUE, pageIndex |-> pageIndex, left |-> left, top |-> top,
     width |-> width, height |-> height]

NoObject ==
    [dict |-> FALSE, pageIndex |-> Absent, left |-> Absent, top |-> Absent,
     width |-> Absent, height |-> Absent]

\* The payload of the smoke test: 0.1, 0.2, 0.4, 0.08 on the page of index
\* page_index.
ExampleItem(page_index) ==
    Item(Number(page_index * One), Number(10), Number(20), Number(40), Number(8))

\* A page as the reader returns it: its media box and its /Annots.
HighlightPage(id, size, annots) ==
    [id |-> id, width |-> size[1], height |-> size[2], annots |-> annots]

\* An annotation a page holds before the request.
Link == [subtype |-> "Link", rect |-> <<>>, quad_points |-> <<>>]

\* A readable upload of n letter pages, the second one holding a link.
LetterPdf(n) ==
    [readable |-> TRUE,
     pages |-> [k \in 1..n |->
                  HighlightPage(k, <<612, 792>>, IF k = 2 THEN <<Link>> ELSE <<>>)]]

Payload(kind, items) == [kind |-> kind, items |-> items]

HighlightRequest(file, highlights) ==
    [op |-> "highlight", file |-> file, highlights |-> highlights]

\* The positions and the sizes of the rectangles of one item on one page.
Positions1 == {Number(n) : n \in {-50, -20, 0, 10, 20, 60, 100, 150}} \cup {Json("nan", 0)}

Sizes1 == {Number(n) : n \in {-10, 0, 8, 20, 40, 100}} \cup {Json("nan", 0)}

\* Media boxes: letter, a square, an empty one, and boxes whose corners are
\* given right to left or top to bottom.
PageSizes == {<<612, 792>>, <<100, 100>>, <<0, 792>>, <<-612, 792>>, <<612, -792>>}

\* One item on the only page of a document.
InitMap ==
    /\ pc = "call"
    /\ ret = NoRet
    /\ \E l \in Positions1, t \in Positions1, w \in Sizes1, h \in Sizes1,
          size \in PageSizes :
          call = HighlightRequest(
                   Upload(<<"a", ".", "p", "d", "f">>,
                          [readable |-> TRUE,
                           pages |-> <<HighlightPage(1, size, <<>>)>>]),
                   Payload("list", <<Item(Number(0), l, t, w, h)>>))

\* The items of a batch: three that map to a rectangle, on the first and
\* the second page; items with a field that is absent, no number or null,
\* with no width, with no extent on the page, with NaN for a field; items
\* for no page; items whose pageIndex is no number; an element that is no
\* object.
BatchItems ==
    { ExampleItem(0), ExampleItem(1),
      Item(Number(0), Number(60), Number(60), Number(20), Number(20)),
      Item(Number(170), Number(0), Number(0), Number(100), Number(100)),
      Item(Number(0), Absent, Number(20), Number(40), Number(8)),
      Item(Number(0), Number(10), Json("string", 0), Number(40), Number(8)),
      Item(Number(100), Number(10), Number(20), Json("null", 0), Number(8)),
      Item(Number(0), Number(10), Number(20), Number(0), Number(8)),
      Item(Number(100), Number(100), Number(20), Number(40), Number(8)),
      Item(Number(0), Json("nan", 0), Number(20), Number(40), Number(8)),
      Item(Absent, Number(10), Number(20), Number(40), Number(8)),
      Item(Number(500), Number(10), Number(20), Number(40), Number(8)),
      Item(Json("string", 0), Number(10), Number(20), Number(40), Number(8)),
      Item(Json("null", 0), Number(10), Number(20), Number(40), Number(8)),
      NoObject }

InitBatch ==
    /\ pc = "call"
    /\ ret = NoRet
    /\ \/ \E n \in 0..2, items \in SeqsUpTo(BatchItems, MaxBatch) :
              call = HighlightRequest(Upload(<<"a", ".", "p", "d", "f">>, LetterPdf(n)),
                                      Payload("list", items))
       \/ \E name \in FileNames, data \in {LetterPdf(1), Unreadable},
             kind \in {"list", "empty", "object", "invalid"} :
              call = HighlightRequest(Upload(name, data),
                       Payload(kind, IF kind = "list" THEN <<ExampleItem(0)>> ELSE <<>>))

HighlightPdf ==
    /\ pc = "call"
    /\ call.op = "highlight"
    /\ ret' = highlight_pdf(call.file, call.highlights)
    /\ pc' = "done"
    /\ UNCHANGED call

NextHighlight == HighlightPdf

SpecMap == InitMap /\ [][NextHighlight]_vars

SpecBatch == InitBatch /\ [][NextHighlight]_vars

(***************************************************************************)
(* Properties of parse_page_ranges, checked under SpecRanges.              *)
(***************************************************************************)
RangesDone == pc = "done" /\ call.op = "parse_page_ranges"

RangesOk == RangesDone /\ ret.err = "none"

\* The comma-separated tokens of the expression, spaces removed.
Tokens == SplitAll(RemoveSpaces(OrDefault(call.ranges)), ",")

\* The bounds the i-th token states.
Stated(i) == ChunkBounds(Tokens[i], call.total_pages)

\* C1: whenever parse_page_ranges returns, every span (start, end) of the
\* list satisfies 1 <= start <= end <= total_pages.
C1_SpansWithinDocument ==
    RangesOk =>
        \A i \in 1..Len(ret.spans) :
            /\ 1 <= ret.spans[i][1]
            /\ ret.spans[i][1] <= ret.spans[i][2]
            /\ ret.spans[i][2] <= call.total_pages

\* A call that returned a span whose stated end lay past the last page.
C1_Witness ==
    /\ RangesOk
    /\ \E i \in 1..Len(ret.spans) :
          Stated(i).end > call.total_pages /\ ret.spans[i][2] = call.total_pages

\* C2: a token whose start is past the last page makes the call fail; a
\* token with a valid start and an end past the last page is accepted with
\* the end clamped to total_pages; a token whose start is greater than its
\* end fails.  resolve("3,99", 5) fails and resolve("3-99", 5) = [(3, 5)].
C2_RejectStartClampEnd ==
    RangesDone =>
        /\ (\E i \in 1..Len(Tokens) :
               Stated(i).ok /\ Stated(i).start > call.total_pages)
              => ret.err # "none"
        /\ (\E i \in 1..Len(Tokens) :
               Stated(i).ok /\ Stated(i).start > Stated(i).end)
              => ret.err # "none"
        /\ (\A i \in 1..Len(Tokens) :
               /\ Stated(i).ok
               /\ 1 <= Stated(i).start
               /\ Stated(i).start <= call.total_pages
               /\ Stated(i).start <= Stated(i).end)
              => /\ ret.err = "none"
                 /\ \A i \in 1..Len(Tokens) :
                       Stated(i).end > call.total_pages
                          => ret.spans[i] = <<Stated(i).start, call.total_pages>>
        /\ (call.ranges = <<"3", ",", "9", "9">> /\ call.total_pages = 5)
              => ret.err # "none"
        /\ (call.ranges = <<"3", "-", "9", "9">> /\ call.total_pages = 5)
              => (ret.err = "none" /\ ret.spans = << <<3, 5>> >>)

\* resolve("3-99", 5) has returned [(3, 5)].
C2_Witness ==
    /\ RangesOk
    /\ call.ranges = <<"3", "-", "9", "9">>
    /\ call.total_pages = 5
    /\ ret.spans = << <<3, 5>> >>

\* C3: an omitted start resolves to 1 and an omitted end to total_pages;
\* for every total_pages >= 1 the expression "1-", and an absent (None or
\* empty) expression, resolve to the single span (1, total_pages).
C3_OpenEndsAndDefault ==
    RangesDone =>
        /\ (call.total_pages >= 1 /\ call.ranges \in {<<"1", "-">>, None, <<>>})
              => (ret.err = "none" /\ ret.spans = << <<1, call.total_pages>> >>)
        /\ ret.err = "none" =>
              \A i \in 1..Len(Tokens) :
                  /\ Tokens[i] # <<>>
                  /\ Tokens[i][1] = "-" => ret.spans[i][1] = 1
                  /\ Tokens[i][Len(Tokens[i])] = "-"
                        => ret.spans[i][2] = call.total_pages

\* An absent expression has resolved to the whole of a document of more
\* than one page.
C3_Witness ==
    /\ RangesOk
    /\ call.ranges = None
    /\ call.total_pages > 1
    /\ ret.spans = << <<1, call.total_pages>> >>

\* The number of commas in s.
RECURSIVE Commas(_)
Commas(s) ==
    IF s = <<>> THEN 0
    ELSE (IF Head(s) = "," THEN 1 ELSE 0) + Commas(Tail(s))

\* C4: a successful call returns exactly one span per comma-separated token,
\* the i-th span being what the i-th token resolves to on its own: input
\* order is kept and duplicate or overlapping spans are kept.
C4_OneSpanPerTokenInOrder ==
    RangesOk =>
        /\ Len(ret.spans) = Commas(RemoveSpaces(OrDefault(call.ranges))) + 1
        /\ \A i \in 1..Len(ret.spans) :
              LET alone == parse_page_ranges(Tokens[i], call.total_pages)
              IN  alone.err = "none" /\ alone.spans = <<ret.spans[i]>>

\* A call has returned spans out of page order, one of them twice.
C4_Witness ==
    /\ RangesOk
    /\ \E i, j \in 1..Len(ret.spans) :
          i < j /\ ret.spans[i][1] > ret.spans[j][1]
    /\ \E i, j \in 1..Len(ret.spans) :
          i < j /\ ret.spans[i] = ret.spans[j]

\* C5: when total_pages is 0, parse_page_ranges fails for every expression,
\* the absent one included; it returns no list.
C5_EmptyDocumentFails ==
    (RangesDone /\ call.total_pages = 0) => ret.err # "none"

\* The absent expression has failed on a document without pages.
C5_Witness ==
    /\ RangesDone
    /\ call.total_pages = 0
    /\ call.ranges = None
    /\ ret.err # "none"

(***************************************************************************)
(* Properties of the request handlers, checked under SpecApi.              *)
(***************************************************************************)
ApiDone ==
    pc = "done" /\ call.op \in {"split", "reorder", "rotate", "replace_text"}

\* The errors of the engines: a range error, an unreadable document and a
\* target that is not on the page.
RangeErrors ==
    {"ValueError: invalid literal", "ValueError: invalid start",
     "ValueError: start > end"}

EngineErrors ==
    RangeErrors \cup {"unreadable", "FileDataError",
                      "ValueError: Target text not found on the specified page."}

\* C6: every document-edit request whose engine call fails with a range
\* error, an unreadable-document error or a target-not-found error is
\* answered with a 4xx status, none of these failures leaves the handler as
\* a 5xx, and every request whose engine call succeeds is answered with 200.
C6_EngineErrorsAre4xx ==
    ApiDone =>
        /\ ret.err \in EngineErrors => (400 <= ret.status /\ ret.status <= 499)
        /\ (ret.err = "none" /\ IsPdfName(call.file.filename)
               /\ (call.op = "rotate" => call.degrees \in {90, 180, 270}))
              => ret.status = 200

(***************************************************************************)
(* Properties of _find_span, checked under SpecLocate, and of              *)
(* replace_text_preserving_style, checked under SpecEdit and SpecFont.     *)
(***************************************************************************)
\* t occurs in text: at some offset every character of t equals the
\* character of text there.
Occurs(t, text) ==
    \E k \in 0..(Len(text) - Len(t)) : \A j \in 1..Len(t) : text[k + j] = t[j]

\* The positions (block, line, run) of the runs of a layout.
Positions(data) ==
    { <<b, l, r>> \in (1..MaxItems + 1) \X (1..MaxItems + 1) \X (1..MaxItems + 1) :
        /\ b <= Len(data.blocks)
        /\ l <= Len(data.blocks[b].lines)
        /\ r <= Len(data.blocks[b].lines[l].spans) }

RunAt(data, p) == data.blocks[p[1]].lines[p[2]].spans[p[3]]

\* The positions of the runs whose text holds t.
Matches(data, t) == {p \in Positions(data) : Occurs(t, RunAt(data, p).text)}

\* p comes before q in document order.
Before(p, q) ==
    \/ p[1] < q[1]
    \/ p[1] = q[1] /\ p[2] < q[2]
    \/ p[1] = q[1] /\ p[2] = q[2] /\ p[3] < q[3]

\* The first position of a non-empty set of positions.
First(ps) == CHOOSE p \in ps : \A q \in ps \ {p} : Before(p, q)

\* The page a call names, page_index counting back from the end when
\* negative.
NamedPage(pages, page_index) ==
    IF page_index < 0 THEN page_index + Len(pages) + 1 ELSE page_index + 1

EditDone == pc = "done" /\ call.op = "replace_text_preserving_style"

NotFoundError == "ValueError: Target text not found on the specified page."

\* C7: when no run of the specified page holds the target text, the call
\* fails with the 'target text not found' error, no call at all has been
\* made on the document engine and no bytes are returned.
C7_NotFoundBeforeDrawing ==
    (/\ EditDone
     /\ call.pdf_bytes.readable
     /\ call.page_index < Len(call.pdf_bytes.pages)
     /\ Matches(call.pdf_bytes.pages[NamedPage(call.pdf_bytes.pages,
                                                call.page_index)].data,
                call.find_text) = {})
        => /\ ret.err = NotFoundError
           /\ ret.calls = <<>>
           /\ ret.out = NoBytes

\* The call has failed on a page that has runs, none of them with the
\* target, in a document whose other page has it.
C7_Witness ==
    /\ EditDone
    /\ ret.err = NotFoundError
    /\ call.page_index = 0
    /\ Len(call.pdf_bytes.pages) = 2
    /\ Positions(call.pdf_bytes.pages[1].data) # {}
    /\ Matches(call.pdf_bytes.pages[2].data, call.find_text) # {}

LocateDone == pc = "done" /\ call.op = "_find_span"

\* C8: _find_span returns the run that comes first in blocks, lines, runs
\* order among the runs whose text holds the target as an exact,
\* case-sensitive substring, with its line and page, and returns nothing
\* exactly when no run holds it.
C8_FirstMatchInDocumentOrder ==
    (LocateDone /\ ret.err = "none") =>
        LET data == call.doc[NamedPage(call.doc, call.page_index)].data
            found == Matches(data, call.find_text)
        IN  /\ ret.found <=> found # {}
            /\ ret.found =>
                  /\ ret.span = RunAt(data, First(found))
                  /\ ret.line = data.blocks[First(found)[1]].lines[First(found)[2]]
                  /\ ret.page = NamedPage(call.doc, call.page_index) - 1
            /\ ~ret.found => (ret.span = NoSpan /\ ret.page = -1)

\* The run returned is the first of two that hold the target and is not
\* the first run of the page.
C8_Witness ==
    /\ LocateDone
    /\ ret.err = "none"
    /\ ret.found
    /\ LET data == call.doc[NamedPage(call.doc, call.page_index)].data
           found == Matches(data, call.find_text)
       IN  /\ Cardinality(found) >= 2
           /\ \E p \in Positions(data) : Before(p, First(found))
           /\ ret.span = RunAt(data, First(found))

\* The font id of the run the call is about (SpecFont: the one run of the
\* one page).
FontId == call.pdf_bytes.pages[1].data.blocks[1].lines[1].spans[1].font

\* font_id starts with six upper-case letters and a plus sign.
HasSubsetPrefix(font_id) ==
    /\ Len(font_id) >= 7
    /\ \A k \in 1..6 : font_id[k] \in Upper
    /\ font_id[7] = "+"

\* The font id without its subset prefix.
Stripped(font_id) ==
    IF HasSubsetPrefix(font_id) THEN SubSeq(font_id, 8, Len(font_id)) ELSE font_id

\* The calls of one kind among the calls made on the engine.
CallsOf(op) == {k \in 1..Len(ret.calls) : ret.calls[k].op = op}

\* The font name of the text that was drawn.
DrawnFont == ret.calls[CHOOSE k \in CallsOf("insert_text") : TRUE].fontname

\* The priority of the font resolution, for a fallback that counts as
\* supplied when Supplied holds of it.
FontPriority(supplied) ==
    LET name == Stripped(FontId)
    IN  /\ name \in DOMAIN base14 =>
              /\ ret.err = "none"
              /\ DrawnFont = base14[name]
              /\ CallsOf("insert_font") = {}
        /\ (name \notin DOMAIN base14 /\ supplied) =>
              /\ \E k \in CallsOf("insert_font") :
                    /\ ret.calls[k].name = "matchfont"
                    /\ ret.calls[k].file = call.fallback_font_bytes
              /\ ret.err = "none" => DrawnFont = "matchfont"
        /\ (name \notin DOMAIN base14 /\ ~supplied) =>
              /\ ret.err = "none"
              /\ DrawnFont = "helv"
              /\ CallsOf("insert_font") = {}
        /\ FontId = <<"A", "B", "C", "D", "E", "F", "+", "A", "r", "i", "a", "l">> => (ret.err = "none" /\ DrawnFont = "helv")
        /\ call.fallback_font_bytes = None => ret.err = "none"

\* C9 as stated: with the subset prefix stripped, an alias resolves to its
\* built-in font and nothing is embedded; otherwise a supplied fallback (any
\* fallback that is not None) is embedded as "matchfont" and used; otherwise
\* "helv" is used; without fallback bytes the resolution never raises.
C9_AnySuppliedFallbackIsEmbedded ==
    EditDone => FontPriority(call.fallback_font_bytes # None)

\* C9 as amended: the fallback that is embedded is a supplied one that is
\* not empty; an empty fallback is treated as an absent one.
C9_FontPriority ==
    EditDone =>
        FontPriority(call.fallback_font_bytes # None
                       /\ Len(call.fallback_font_bytes) > 0)

\* "ABCDEF+Arial" has been drawn as "helv" although a fallback was supplied,
\* and nothing was embedded.
C9_Witness ==
    /\ EditDone
    /\ FontId = <<"A", "B", "C", "D", "E", "F", "+", "A", "r", "i", "a", "l">>
    /\ call.fallback_font_bytes = <<"O", "T", "T", "O">>
    /\ ret.err = "none"
    /\ DrawnFont = "helv"
    /\ CallsOf("insert_font") = {}

\* C10: a substitution on page p changes page p only, and there only at the
\* bounding box of the first run that holds the target: every drawing call
\* is made on page p at that box, every other page is returned as it was,
\* and no layout is changed.
C10_OnlyFirstMatchOnItsPage ==
    (EditDone /\ ret.err = "none") =>
        LET pages == call.pdf_bytes.pages
            p == NamedPage(pages, call.page_index)
            box == RunAt(pages[p].data, First(Matches(pages[p].data, call.find_text))).bbox
        IN  /\ Len(ret.out) = Len(pages)
            /\ \A q \in 1..Len(pages) : q # p => ret.out[q] = pages[q]
            /\ ret.out[p].data = pages[p].data
            /\ Len(ret.out[p].overlay) = 2
            /\ \A k \in 1..Len(ret.out[p].overlay) :
                  LET item == ret.out[p].overlay[k]
                  IN  /\ item.page = p - 1
                      /\ item.op = "draw_rect" => item.rect = box
                      /\ item.op = "insert_text" => item.point[1] = box[1]
            /\ \A k \in CallsOf("draw_rect") \cup CallsOf("insert_text") :
                  /\ ret.calls[k].page = p - 1
                  /\ ret.calls[k].op = "draw_rect" => ret.calls[k].rect = box
                  /\ ret.calls[k].op = "insert_text" => ret.calls[k].point[1] = box[1]

\* A substitution has succeeded on a page with two runs that hold the
\* target, in a document whose other page holds it too.
C10_Witness ==
    /\ EditDone
    /\ ret.err = "none"
    /\ Len(call.pdf_bytes.pages) = 2
    /\ LET pages == call.pdf_bytes.pages
           p == NamedPage(pages, call.page_index)
       IN  /\ Cardinality(Matches(pages[p].data, call.find_text)) >= 2
           /\ Matches(pages[3 - p].data, call.find_text) # {}
           /\ ret.out[p] # pages[p]

(***************************************************************************)
(* Properties of highlight_pdf, checked under SpecMap (one item on one     *)
(* page) and SpecBatch (lists of items).                                   *)
(***************************************************************************)
HighlightDone == pc = "done" /\ call.op = "highlight"

\* The four fields of an item are numbers.
Numeric(item) ==
    \A v \in {item.left, item.top, item.width, item.height} : v.kind = "number"

\* clamp(v, lo, hi) on numbers.
Clamp(v, lo, hi) == IF v < lo THEN lo ELSE IF v > hi THEN hi ELSE v

\* The reference mapping of an item of numbers on a page:
\* x1 = clamp(left, 0, +inf) * pageWidth, x2 = clamp(left+width, 0, 1) *
\* pageWidth, y2 = (1 - clamp(top, 0, 1)) * pageHeight and
\* y1 = (1 - clamp(top+height, 0, 1)) * pageHeight, as <<x1, y1, x2, y2>>.
Reference(item, page) ==
    LET left == item.left.val
        top == item.top.val
    IN  << (IF left < 0 THEN 0 ELSE left) * page.width,
           (One - Clamp(top + item.height.val, 0, One)) * page.height,
           Clamp(left + item.width.val, 0, One) * page.width,
           (One - Clamp(top, 0, One)) * page.height >>

\* The reference mapping returns nothing: no width or no height, or a
\* rectangle with x2 <= x1 or y2 <= y1.
ReferenceRejects(item, page) ==
    LET r == Reference(item, page)
    IN  \/ item.width.val <= 0
        \/ item.height.val <= 0
        \/ r[3] <= r[1]
        \/ r[4] <= r[2]

\* The item and the page of a request of SpecMap, and the annotations the
\* page has been given.
TheItem == call.highlights.items[1]

ThePage == call.file.data.pages[1]

Emitted == ret.body[1].annots

\* C11: for every rectangle of numbers and every page size, highlight_pdf
\* emits no annotation exactly when the reference mapping rejects the
\* rectangle, and the rectangle of an annotation it emits is the one of the
\* reference mapping.
C11_MappingEqualsReference ==
    (HighlightDone /\ Numeric(TheItem)) =>
        /\ Emitted = <<>> <=> ReferenceRejects(TheItem, ThePage)
        /\ Emitted # <<>> =>
              /\ Len(Emitted) = 1
              /\ Emitted[1].rect = [k \in 1..4 |-> Num(Reference(TheItem, ThePage)[k])]

\* The request of the example: 0.1, 0.2, 0.4, 0.08 on a page of 612 by 792.
ExampleMapped ==
    /\ HighlightDone
    /\ TheItem = ExampleItem(0)
    /\ ThePage.width = 612
    /\ ThePage.height = 792

\* C12 as stated: the example yields x1 = 61.2, x2 = 306, y2 = 570.24 and
\* y1 = 507.84.
C12_ExampleAsStated ==
    ExampleMapped =>
        /\ Len(Emitted) = 1
        /\ Emitted[1].rect = <<Num(6120), Num(50784), Num(30600), Num(57024)>>

\* C12 as amended: the example yields x1 = 61.2, x2 = 306, y2 = 633.6 and
\* y1 = 570.24.
C12_ExampleMapsToFlippedBox ==
    ExampleMapped =>
        /\ Len(Emitted) = 1
        /\ Emitted[1].rect = <<Num(6120), Num(57024), Num(30600), Num(63360)>>
        /\ Emitted[1].quad_points
             = <<Num(6120), Num(63360), Num(30600), Num(63360),
                 Num(6120), Num(57024), Num(30600), Num(57024)>>

\* The example has been mapped and the page has been given an annotation.
C12_Witness == ExampleMapped /\ ret.status = 200 /\ Emitted # <<>>

\* C13: an item whose width or height is not positive is given no
\* annotation, and every annotation that is emitted has x2 > x1 and
\* y2 > y1.
C13_NoDegenerateAnnotation ==
    HighlightDone =>
        /\ (Numeric(TheItem) /\ (TheItem.width.val <= 0 \/ TheItem.height.val <= 0))
              => Emitted = <<>>
        /\ \A k \in 1..Len(Emitted) :
              /\ Lt(Emitted[k].rect[1], Emitted[k].rect[3])
              /\ Lt(Emitted[k].rect[2], Emitted[k].rect[4])

\* A request with a readable document and a list of items.
BatchRequest ==
    /\ HighlightDone
    /\ IsPdfName(call.file.filename)
    /\ call.file.data.readable
    /\ call.highlights.kind = "list"

\* A well-formed item for the page of index idx: an object whose pageIndex
\* is a number of whole part idx and whose other fields are numbers, of
\* positive width and height, that the reference mapping does not reject.
WellFormed(item, idx) ==
    /\ item.dict
    /\ item.pageIndex.kind = "number"
    /\ Truncated(item.pageIndex.val) = idx
    /\ Numeric(item)
    /\ ~ReferenceRejects(item, call.file.data.pages[idx + 1])

\* C14: a request with a list of items succeeds whatever items are
\* malformed; every page is emitted in order, and has been given one
\* annotation for each well-formed item of the list that names it, in the
\* order of the list, and no other.
C14_MalformedItemsAreDropped ==
    BatchRequest =>
        LET pages == call.file.data.pages
        IN  /\ ret.status = 200
            /\ Len(ret.body) = Len(pages)
            /\ \A k \in 1..Len(pages) :
                  LET good == SelectSeq(call.highlights.items,
                                        LAMBDA item : WellFormed(item, k - 1))
                      old == Len(pages[k].annots)
                      annots == ret.body[k].annots
                  IN  /\ ret.body[k].id = pages[k].id
                      /\ Len(annots) = old + Len(good)
                      /\ SubSeq(annots, 1, old) = pages[k].annots
                      /\ \A j \in 1..Len(good) :
                            annots[old + j].rect
                              = [c \in 1..4 |-> Num(Reference(good[j], pages[k])[c])]

RotateOk == pc = "done" /\ call.op = "rotate" /\ ret.status = 200

\* The spans the range expression of the request resolves to on the
\* uploaded document.
RequestSpans ==
    parse_page_ranges(call.ranges, Len(call.file.data.pages)).spans

\* The spans that cover the page of zero-based index i.
Covering(i) ==
    {k \in 1..Len(RequestSpans) :
        RequestSpans[k][1] - 1 <= i /\ i <= RequestSpans[k][2] - 1}

\* C15: a rotation that succeeds emits all N pages of the document in
\* their original order; a page whose zero-based index lies in some span
\* has its rotation increased by the angle exactly once, however many spans
\* cover it, and every other page keeps its rotation; 3 pages, "1-2" and
\* 180 give the rotations 180, 180, 0.
C15_RotateCoveredPagesOnce ==
    RotateOk =>
        LET pages == call.file.data.pages
        IN  /\ Len(ret.body) = Len(pages)
            /\ \A k \in 1..Len(pages) :
                  /\ ret.body[k].id = pages[k].id
                  /\ ret.body[k].rotation =
                        pages[k].rotation
                          + (IF Covering(k - 1) # {} THEN call.degrees ELSE 0)
            /\ (/\ call.file.data = PdfOf(3)
                /\ call.ranges = <<"1", "-", "2">>
                /\ call.degrees = 180)
                 => [k \in 1..3 |-> ret.body[k].rotation] = <<180, 180, 0>>

\* A rotation has succeeded on a document of which one page, already
\* rotated, is covered by two spans and another page by none.
C15_Witness ==
    /\ RotateOk
    /\ \E i, j \in 0..(Len(call.file.data.pages) - 1) :
          /\ Cardinality(Covering(i)) >= 2
          /\ call.file.data.pages[i + 1].rotation # 0
          /\ Covering(j) = {}

ReorderOk == pc = "done" /\ call.op = "reorder" /\ ret.status = 200

\* The number of pages the first k spans name.
RECURSIVE PagesBefore(_)
PagesBefore(k) ==
    IF k = 0 THEN 0
    ELSE PagesBefore(k - 1) + (RequestSpans[k][2] - RequestSpans[k][1] + 1)

\* C16: the page sequence of a reordered output is the concatenation, in
\* span order, of the source pages start..end of each resolved span, so its
\* length is the sum of end - start + 1 over the spans; "3,1-2,4" on 4
\* pages gives the pages 3, 1, 2, 4.
C16_ReorderConcatenatesSpans ==
    ReorderOk =>
        LET pages == call.file.data.pages
        IN  /\ Len(ret.body) = PagesBefore(Len(RequestSpans))
            /\ \A k \in 1..Len(RequestSpans) :
                  \A d \in 0..(RequestSpans[k][2] - RequestSpans[k][1]) :
                      ret.body[PagesBefore(k - 1) + d + 1]
                        = pages[RequestSpans[k][1] + d]
            /\ (/\ call.file.data = PdfOf(4)
                /\ call.ranges = <<"3", ",", "1", "-", "2", ",", "4">>)
                 => [k \in 1..Len(ret.body) |-> ret.body[k].id] = <<3, 1, 2, 4>>

\* A reordering has succeeded that names one page twice, through a span of
\* two pages or more, and leaves another page out.
C16_Witness ==
    /\ ReorderOk
    /\ \E k \in 1..Len(RequestSpans) : RequestSpans[k][2] > RequestSpans[k][1]
    /\ \E i, j \in 0..(Len(call.file.data.pages) - 1) :
          /\ Cardinality(Covering(i)) >= 2
          /\ Covering(j) = {}

\* The decimal digits of a natural number.
RECURSIVE Decimal(_)
Decimal(n) ==
    LET digit == <<"0", "1", "2", "3", "4", "5", "6", "7", "8", "9">>[(n % 10) + 1]
    IN  IF n < 10 THEN <<digit>> ELSE Decimal(n \div 10) \o <<digit>>

\* The spans written back as "start-end" tokens separated by commas.
RECURSIVE Serialized(_)
Serialized(spans) ==
    IF spans = <<>> THEN <<>>
    ELSE LET token == Decimal(spans[1][1]) \o <<"-">> \o Decimal(spans[1][2])
         IN  IF Len(spans) = 1 THEN token
             ELSE token \o <<",">> \o Serialized(Tail(spans))

\* C17: when parse_page_ranges returns a list of spans for total_pages,
\* the list written back as comma-separated "start-end" tokens resolves,
\* for the same total_pages, to the identical list.
C17_ReserializedSpansResolveAlike ==
    RangesOk =>
        LET again == parse_page_ranges(Serialized(ret.spans), call.total_pages)
        IN  /\ again.err = "none"
            /\ again.spans = ret.spans

\* A resolution has returned two spans or more, one of them with its end
\* clamped, from an expression that is not its own serialization.
C17_Witness ==
    /\ RangesOk
    /\ Len(ret.spans) >= 2
    /\ \E i \in 1..Len(Tokens) :
          Stated(i).ok /\ Stated(i).end > call.total_pages
    /\ Serialized(ret.spans) # RemoveSpaces(OrDefault(call.ranges))

EditOk == EditDone /\ ret.err = "none"

\* The run the call has located: the first one of the named page that
\* holds the target.
LocatedRun ==
    LET pages == call.pdf_bytes.pages
        data == pages[NamedPage(pages, call.page_index)].data
    IN  RunAt(data, First(Matches(data, call.find_text)))

\* The font a run is redrawn in: the built-in font of its alias, else the
\* embedded fallback when one is given and not empty, else "helv".
RedrawFont ==
    LET name == Stripped(LocatedRun.font)
    IN  IF name \in DOMAIN base14 THEN base14[name]
        ELSE IF call.fallback_font_bytes # None /\ Len(call.fallback_font_bytes) > 0
             THEN "matchfont"
             ELSE "helv"

\* C18: a substitution that succeeds draws exactly one rectangle, white in
\* stroke and fill, over the bounding box of the located run, then inserts
\* the replacement text exactly once, at (x0, y1 - 0.2 * size) in the
\* resolved font, the size of the run and its decoded colour, and saves the
\* document after both; in no call, failed ones included, is text inserted
\* before the rectangle is drawn.
C18_MaskThenTextThenSave ==
    /\ EditDone =>
          \A t \in CallsOf("insert_text") :
              \E m \in CallsOf("draw_rect") : m < t
    /\ EditOk =>
          /\ Cardinality(CallsOf("draw_rect")) = 1
          /\ Cardinality(CallsOf("insert_text")) = 1
          /\ Cardinality(CallsOf("save")) = 1
          /\ \A m \in CallsOf("draw_rect"), t \in CallsOf("insert_text"),
                v \in CallsOf("save") :
                LET mask == ret.calls[m]
                    text == ret.calls[t]
                    run == LocatedRun
                IN  /\ m < t /\ t < v /\ v = Len(ret.calls)
                    /\ mask.rect = run.bbox
                    /\ mask.color = <<255, 255, 255>>
                    /\ mask.fill = <<255, 255, 255>>
                    /\ text.text = call.replace_text
                    /\ text.point[1] = run.bbox[1]
                    /\ 10 * text.point[2] = 10 * run.bbox[4] - 2 * run.size
                    /\ text.fontname = RedrawFont
                    /\ text.fontsize = run.size
                    /\ \A c \in 1..3 : text.color[c] \in 0..255
                    /\ 65536 * text.color[1] + 256 * text.color[2] + text.color[3]
                         = run.color

\* A substitution has succeeded on a coloured run and has embedded a font
\* between the rectangle and the text.
C18_Witness ==
    /\ EditOk
    /\ LocatedRun.color # 0
    /\ \E m \in CallsOf("draw_rect"), e \in CallsOf("insert_font"),
          t \in CallsOf("insert_text") : m < e /\ e < t

=============================================================================
